---- MODULE Spec2Model ----
(***************************************************************************)
(* Link lifecycle state machine and packet pipeline of the Qualisys LSL    *)
(* bridge (src/qlsl/link.py), with the embedding GUI's use of the handle   *)
(* (src/qlsl/gui.py) and the channel arithmetic of src/qlsl/config.py.     *)
(*                                                                         *)
(* The program runs on one asyncio event loop.  A coroutine runs without   *)
(* interruption from one await to the next; coroutines started with        *)
(* ensure_future and coroutines woken by a completed future are run in the *)
(* order in which they were scheduled, one batch per loop iteration, and   *)
(* the callbacks of the capture session (command replies, events, frame    *)
(* packets, transport loss) and of the user interface run between two      *)
(* batches.  `ready` is the batch being run, `sched` the next one.  An     *)
(* iteration polls the transport before it runs its batch, so a command    *)
(* sent by a batch (`outbox`) is answered in a later iteration (`pending`).*)
(***************************************************************************)
EXTENDS Integers, Sequences, FiniteSets, TLC

\* ---------------------------------------------------------------- bounds
\* What the environment does to one Link in one run, counted together: the
\* session events that launch start_stream() or stop_stream(), the frame
\* packets delivered, the shutdown() calls of the embedding caller, and the
\* failures (a refused connection, a command error on a live transport, a
\* parameter document that cannot be streamed, the loss of the transport).
MaxOps == 4

\* The most markers, bodies or cameras a document or a packet holds.
MaxItems == 2

\* ------------------------------------------------------------- constants
INITIAL == "INITIAL"
WAITING == "WAITING"
STREAMING == "STREAMING"
STOPPED == "STOPPED"
State == {INITIAL, WAITING, STREAMING, STOPPED}

None == "None"

MsgNoData == "No 3D or 6DOF data available from QTM"
MsgInconsistent == "Stream canceled: QTM stream data inconsistent with LSL metadata"
MsgDisconnected == "Disconnected from QTM"
MsgQtmError == "QTM error"
MsgInternal == "An internal error occurred. See log messages for details."
\* The two LinkErrors of init()
LinkErrorConnect == "Failed to connect to QTM"
CancelledError == "CancelledError"
LinkErrorQtm == "QTM error: get_state"

start_events == {"EventRTfromFileStarted", "EventCalibrationStarted",
                 "EventCaptureStarted", "EventConnected"}
stop_events == {"EventRTfromFileStopped", "EventCalibrationStopped",
                "EventCaptureStopped", "EventConnectionClosed"}
QRTEvent == start_events \cup stop_events \cup {"EventCameraSettingsChanged"}

\* ------------------------------------------------------- configuration
\* A Configuration: the number of marker labels, of bodies and of cameras
\* it holds, and whether the euler angle names of its 6DOF part are ones
\* the metadata builder knows (pitch, roll, yaw).  Its bodies have a name
\* and its cameras an id unless the parser found one without.
Cfg(m, b, e, c) ==
    [markers |-> m, bodies |-> b, euler_ok |-> e, cameras |-> c,
     named |-> TRUE, ids |-> TRUE]
Config == Cfg(0, 0, TRUE, 0)
marker_count(c) == c.markers
body_count(c) == c.bodies
camera_count(c) == c.cameras
\* A channel count that leaves out the orientation of the bodies.
channel_count_positions(c) == 3 * marker_count(c) + 3 * body_count(c)

\* lines 47-48
channel_count(c) == 3 * marker_count(c) + 6 * body_count(c)

\* A parameter document, by what the parser reads of it.  Each section is
\* present or not and has child elements: General its Camera elements
\* (all with an Id, or not) and its Frequency, The_3D its Label elements
\* (each with a Name) and others the parser skips, The_6D its Body elements
\* (all with a Name, or not) and its Euler element, whose angle names are
\* known to the metadata builder or not.
General(p, cams, ids, freq) ==
    [present |-> p, cameras |-> cams, ids |-> ids, frequency |-> freq]
The_3D(p, labels, other) == [present |-> p, labels |-> labels, other |-> other]
The_6D(p, bodies, named, euler) ==
    [present |-> p, bodies |-> bodies, named |-> named, euler |-> euler]
Document(wf, g, t3, t6) ==
    [wellformed |-> wf, general |-> g, the_3d |-> t3, the_6d |-> t6]
NoGeneral == General(FALSE, 0, TRUE, FALSE)
No3D == The_3D(FALSE, 0, FALSE)
No6D == The_6D(FALSE, 0, TRUE, "none")
\* Text that is not XML: ET.fromstring raises.
Malformed == Document(FALSE, NoGeneral, No3D, No6D)

\* The outcome of a call that may raise.
Parsed(c) == [raised |-> FALSE, config |-> c]
ParseError == [raised |-> TRUE, config |-> Config]

\* lines 53-61, `if xml_section:`: xml.find gave an element and the
\* element has child elements (an Element without children is false).
\* A parser that enters the General section whether it is there or not.
general_found_always(doc) == TRUE

general_found(doc) ==
    doc.general.present /\ (doc.general.cameras > 0 \/ doc.general.frequency)
the_3d_found(doc) ==
    doc.the_3d.present /\ (doc.the_3d.labels > 0 \/ doc.the_3d.other)
the_6d_found(doc) ==
    doc.the_6d.present /\ (doc.the_6d.bodies > 0 \/ doc.the_6d.euler # "none")

\* lines 64-86: one camera per Camera element; float(None) raises when
\* there is no Frequency
parse_qtm_parameters_general(c, g) ==
    IF ~g.frequency THEN ParseError
    ELSE Parsed([c EXCEPT !.cameras = g.cameras, !.ids = g.ids])

\* lines 88-95: one marker per Label/Name
parse_qtm_parameters_3d(c, t3) == Parsed([c EXCEPT !.markers = t3.labels])

\* A parser of the 6DOF section that keeps nothing of it.
parse_qtm_parameters_6d_nothing(c, t6) == Parsed(c)

\* lines 97-125: one body per Body element; iterating over None raises
\* when there is no Euler element
parse_qtm_parameters_6d(c, t6) ==
    IF t6.euler = "none" THEN ParseError
    ELSE Parsed([c EXCEPT !.bodies = t6.bodies, !.named = t6.named,
                          !.euler_ok = (t6.euler = "known")])

\* lines 50-62
parse_qtm_parameters(doc) ==
    IF ~doc.wellformed THEN ParseError
    ELSE LET r1 == IF general_found(doc)
                   THEN parse_qtm_parameters_general(Config, doc.general)
                   ELSE Parsed(Config)
             r2 == IF r1.raised \/ ~the_3d_found(doc) THEN r1
                   ELSE parse_qtm_parameters_3d(r1.config, doc.the_3d)
         IN  IF r2.raised \/ ~the_6d_found(doc) THEN r2
             ELSE parse_qtm_parameters_6d(r2.config, doc.the_6d)

\* What get_parameters may hand to start_stream(): text that is not XML,
\* or a document of a server with one camera and these markers and bodies.
ServerDocument(m, b, e) ==
    Document(TRUE, General(TRUE, 1, TRUE, TRUE),
             The_3D(TRUE, m, TRUE),
             IF b = 0 THEN No6D
             ELSE The_6D(TRUE, b, TRUE, IF e THEN "known" ELSE "unknown"))
Streamable == Cfg(3, 0, TRUE, 1)
ParameterDocs == {ServerDocument(0, 0, TRUE), ServerDocument(3, 0, TRUE),
                  ServerDocument(0, 1, FALSE), Malformed}

\* The outcome of an awaited call: "ok" (with the document, for
\* get_parameters), "err" (a command error), "none" (connect gave no session).
Res(st, doc) == [status |-> st, doc |-> doc]
NoRes == Res(None, Malformed)

\* A frame packet: which components it carries and how many markers and
\* bodies they hold.
Pkt(c3, m, c6, b) ==
    [none |-> FALSE, has3d |-> c3, markers |-> m, has6d |-> c6, bodies |-> b]
\* The None that stop_stream() puts on the queue.
Sentinel == [none |-> TRUE, has3d |-> FALSE, markers |-> 0, has6d |-> FALSE, bodies |-> 0]
FramePackets == {Pkt(TRUE, 3, TRUE, 0), Pkt(TRUE, 2, TRUE, 0), Pkt(FALSE, 0, FALSE, 0)}
\* One value of a sample: which marker or body it is read from, which
\* field of it, and whether mm_to_m() converted it to metres.
Value(of, index, field, metres) ==
    [of |-> of, index |-> index, field |-> field, metres |-> metres]

\* lines 138-141, the loop over the markers from marker i on
RECURSIVE append_markers(_, _, _)
append_markers(sample, i, n) ==
    IF i > n THEN sample
    ELSE append_markers(sample \o <<Value("marker", i, "x", TRUE),
                                    Value("marker", i, "y", TRUE),
                                    Value("marker", i, "z", TRUE)>>, i + 1, n)

\* lines 144-150, the loop over the bodies from body i on
RECURSIVE append_bodies(_, _, _)
append_bodies(sample, i, n) ==
    IF i > n THEN sample
    ELSE append_bodies(sample \o <<Value("body", i, "x", TRUE),
                                   Value("body", i, "y", TRUE),
                                   Value("body", i, "z", TRUE),
                                   Value("body", i, "a1", FALSE),
                                   Value("body", i, "a2", FALSE),
                                   Value("body", i, "a3", FALSE)>>, i + 1, n)

\* A converter that reads the markers and bodies whatever the packet carries.
qtm_packet_to_lsl_sample_filled(p) ==
    append_bodies(append_markers(<<>>, 1, p.markers), 1, p.bodies)

\* lines 134-151
qtm_packet_to_lsl_sample(p) ==
    LET s3 == IF p.has3d THEN append_markers(<<>>, 1, p.markers) ELSE <<>>
    IN  IF p.has6d THEN append_bodies(s3, 1, p.bodies) ELSE s3

qtm_packet_to_lsl_sample_len(p) == Len(qtm_packet_to_lsl_sample(p))

\* One channel descriptor of the metadata: the marker or body it is
\* labelled with, its type (for an orientation, which of the configured
\* euler angles names it) and its unit.
Channel(of, index, type, unit) ==
    [of |-> of, index |-> index, type |-> type, unit |-> unit]

\* The stream info, or what was built of it when the builder raised.
Info(raised, n, chs) == [raised |-> raised, channel_count |-> n, channels |-> chs]

\* lines 174-190, the loop over config.markers() from marker i on
RECURSIVE lsl_stream_info_add_markers(_, _, _)
lsl_stream_info_add_markers(info, i, n) ==
    IF i > n THEN info
    ELSE lsl_stream_info_add_markers(
             [info EXCEPT !.channels =
                 @ \o <<Channel("marker", i, "PositionX", "meters"),
                        Channel("marker", i, "PositionY", "meters"),
                        Channel("marker", i, "PositionZ", "meters")>>],
             i + 1, n)

\* lines 192-223, the loop over config.bodies() from body i on:
\* body["name"] raises for a body without a name, and
\* euler_angle_to_component[...] for an angle that is not pitch, roll or yaw
RECURSIVE lsl_stream_info_add_6dof(_, _, _, _)
lsl_stream_info_add_6dof(info, cfg, i, n) ==
    IF i > n THEN info
    ELSE IF ~cfg.named THEN [info EXCEPT !.raised = TRUE]
    ELSE LET pos == [info EXCEPT !.channels =
                        @ \o <<Channel("body", i, "PositionX", "meters"),
                               Channel("body", i, "PositionY", "meters"),
                               Channel("body", i, "PositionZ", "meters")>>]
         IN  IF ~cfg.euler_ok THEN [pos EXCEPT !.raised = TRUE]
             ELSE lsl_stream_info_add_6dof(
                      [pos EXCEPT !.channels =
                          @ \o <<Channel("body", i, "OrientationFirst", "degrees"),
                                 Channel("body", i, "OrientationSecond", "degrees"),
                                 Channel("body", i, "OrientationThird", "degrees")>>],
                      cfg, i + 1, n)

\* lines 225-237: camera["id"] raises for a camera without an id
lsl_stream_info_add_cameras(info, cfg) ==
    IF camera_count(cfg) > 0 /\ ~cfg.ids THEN [info EXCEPT !.raised = TRUE]
    ELSE info

\* A builder that describes the bodies before the markers.
new_lsl_stream_info_bodies_first(cfg) ==
    LET i0 == Info(FALSE, channel_count(cfg), <<>>)
        i1 == lsl_stream_info_add_6dof(i0, cfg, 1, body_count(cfg))
        i2 == lsl_stream_info_add_markers(i1, 1, marker_count(cfg))
    IN  IF i2.raised THEN i2 ELSE lsl_stream_info_add_cameras(i2, cfg)

\* lines 153-172
new_lsl_stream_info(cfg) ==
    LET i0 == Info(FALSE, channel_count(cfg), <<>>)
        i1 == lsl_stream_info_add_markers(i0, 1, marker_count(cfg))
        i2 == lsl_stream_info_add_6dof(i1, cfg, 1, body_count(cfg))
    IN  IF i2.raised THEN i2 ELSE lsl_stream_info_add_cameras(i2, cfg)

VARIABLES
    state,            \* Link.state
    conn,             \* Link.conn: None or "conn"
    config,           \* Link.config
    receiver_queue,   \* Link.receiver_queue: 0 (None) or a queue id
    receiver_task,    \* Link.receiver_task: 0 (None) or a task id
    lsl_info,         \* Link.lsl_info: 0 (None) or the id of the outlet it describes
    lsl_outlet,       \* Link.lsl_outlet: 0 (None) or an outlet id
    packet_count,     \* Link.packet_count
    start_time,       \* Link.start_time
    stop_time,        \* Link.stop_time
    transport,        \* the session's transport: "none", "up", "closing", "lost"
    sink,             \* queue id the session delivers packets to, 0 if none
    srv,              \* TRUE while the capture server is sending frames
    pending,          \* tasks awaiting a command reply, in request order
    outbox,           \* commands sent during the current loop iteration
    queues,           \* queue id -> items not yet taken (None is the sentinel)
    getters,          \* queue id -> tasks suspended in get(), in order
    outlets,          \* outlet id -> channel count of its metadata
    pushed,           \* samples passed to push_sample: [outlet, len]
    counted,          \* samples counted in packet_count: [outlet, len]
    rejected,         \* samples found inconsistent: [len, state]
    tasks,            \* task id -> [kind, pc, msg, q, res]
    ready,            \* task ids of the batch being run
    sched,            \* task ids scheduled for the next batch
    joiners,          \* tasks suspended in `await receiver_task`, in order
    notes,            \* states passed to the state-changed callback
    errors,           \* messages passed to the error callback
    disconnects,      \* number of conn.disconnect() calls
    link_handle,      \* the caller holds a Link to call shutdown() on
    init_result,      \* "pending", "returned", or the LinkError raised
    ops,              \* launching events, packets and shutdown() calls so far
    xml_string,       \* the document given to parse_qtm_parameters
    parse_result,     \* what parse_qtm_parameters made of xml_string, once called
    stream_info,      \* what new_lsl_stream_info made of the parsed Config
    frame_packet,     \* the packet given to qtm_packet_to_lsl_sample
    lsl_sample        \* what qtm_packet_to_lsl_sample made of frame_packet

vars == <<state, conn, config, receiver_queue, receiver_task, lsl_info, lsl_outlet,
          packet_count, start_time, stop_time, transport, sink, srv, pending, outbox, queues,
          getters, outlets, pushed, counted, rejected, tasks, ready, sched, joiners, notes,
          errors, disconnects, link_handle, init_result, ops,
          xml_string, parse_result, stream_info, frame_packet, lsl_sample>>

\* The variables of the Link, its session and its event loop.
linkvars == <<state, conn, config, receiver_queue, receiver_task, lsl_info,
              lsl_outlet, packet_count, start_time, stop_time, transport, sink,
              srv, pending, outbox, queues, getters, outlets, pushed, counted,
              rejected, tasks, ready, sched, joiners, notes, errors, disconnects,
              link_handle, init_result, ops>>

\* The variables of the functions of config.py called on their own.
convvars == <<xml_string, parse_result, stream_info, frame_packet, lsl_sample>>

\* The whole state as one record, so that a coroutine's code between two
\* awaits is a composition of functions on it.
W == [state |-> state, conn |-> conn, config |-> config,
      receiver_queue |-> receiver_queue, receiver_task |-> receiver_task,
      lsl_info |-> lsl_info, lsl_outlet |-> lsl_outlet,
      packet_count |-> packet_count, start_time |-> start_time,
      stop_time |-> stop_time, transport |-> transport, sink |-> sink, srv |-> srv,
      pending |-> pending, outbox |-> outbox, queues |-> queues, getters |-> getters,
      outlets |-> outlets, pushed |-> pushed, counted |-> counted,
      rejected |-> rejected, tasks |-> tasks,
      ready |-> ready, sched |-> sched, joiners |-> joiners, notes |-> notes,
      errors |-> errors, disconnects |-> disconnects, link_handle |-> link_handle,
      init_result |-> init_result, ops |-> ops]

Commit(w) ==
    /\ state' = w.state /\ conn' = w.conn /\ config' = w.config
    /\ receiver_queue' = w.receiver_queue /\ receiver_task' = w.receiver_task
    /\ lsl_info' = w.lsl_info /\ lsl_outlet' = w.lsl_outlet
    /\ packet_count' = w.packet_count /\ start_time' = w.start_time
    /\ stop_time' = w.stop_time /\ transport' = w.transport /\ sink' = w.sink
    /\ srv' = w.srv /\ pending' = w.pending /\ outbox' = w.outbox
    /\ queues' = w.queues
    /\ getters' = w.getters /\ outlets' = w.outlets /\ pushed' = w.pushed
    /\ counted' = w.counted /\ rejected' = w.rejected
    /\ tasks' = w.tasks /\ ready' = w.ready
    /\ sched' = w.sched /\ joiners' = w.joiners /\ notes' = w.notes
    /\ errors' = w.errors /\ disconnects' = w.disconnects
    /\ link_handle' = w.link_handle /\ init_result' = w.init_result
    /\ ops' = w.ops
    /\ UNCHANGED convvars

\* ------------------------------------------------------------ scheduling
Task(k, pc, msg) == [kind |-> k, pc |-> pc, msg |-> msg, q |-> 0, res |-> NoRes]

\* asyncio.ensure_future(coro): a new task, run in the next batch.
ensure_future(w, k, msg) ==
    [w EXCEPT !.tasks = Append(@, Task(k, "begin", msg)),
              !.sched = Append(@, Len(w.tasks) + 1)]

\* The task ends (returned: "done"; raised: "failed").
EndTask(w, id, pc) ==
    [w EXCEPT !.tasks[id] = Task(w.tasks[id].kind, pc, w.tasks[id].msg)]

\* The task sends a session command and is suspended until its reply.
SendCommand(w, id, pc) ==
    [w EXCEPT !.tasks[id].pc = pc, !.tasks[id].res = NoRes, !.outbox = Append(@, id)]

\* Task.cancel(): the call the task awaits is given up and the task is
\* scheduled, if it is not yet, to have CancelledError raised at its await.
cancel(w, id) ==
    [w EXCEPT !.tasks[id].res = Res("cancelled", Malformed),
              !.sched = IF \E i \in DOMAIN w.sched : w.sched[i] = id THEN @
                        ELSE Append(@, id)]

\* The task is suspended in a session command that has no reply yet.
awaits_reply(w, id) ==
    w.tasks[id].res = NoRes /\ w.tasks[id].pc \notin {"done", "failed"}

\* A loop iteration begins: it polls the transport once, before it runs its
\* batch, so the reply to a command can be read in the iterations after the
\* one that sent the command.
Flush(w) == [w EXCEPT !.pending = @ \o w.outbox, !.outbox = <<>>]

\* With nothing scheduled the loop waits in its poll: what arrives then
\* opens the next iteration.
Poll(w) == IF w.sched = <<>> THEN Flush(w) ELSE w

\* time.time(): later calls give later values.
Now(w) == Len(w.notes) + 1

\* --------------------------------------------------------------- Link
on_state_changed(w, new_state) ==
    [w EXCEPT !.notes = Append(@, new_state),
              \* gui.App.on_state_changed drops its handle on STOPPED
              !.link_handle = IF new_state = STOPPED THEN FALSE ELSE @]

on_error(w, msg) == [w EXCEPT !.errors = Append(@, msg)]

\* An assignment to Link.state that tells nobody.
set_state_silent(w, s) == [w EXCEPT !.state = s]

\* lines 52-56
set_state(w, s) == on_state_changed([w EXCEPT !.state = s], s)

is_stopped(w) == w.state \in {INITIAL, STOPPED}

has_transport(w) == w.transport \in {"up", "closing"}

reset_stream_context(w) ==
    [w EXCEPT !.config = Config, !.receiver_queue = 0, !.receiver_task = 0,
              !.lsl_info = 0, !.lsl_outlet = 0]

err_disconnect(w, err_msg) == ensure_future(w, "shutdown", err_msg)

on_disconnect(w) ==
    IF is_stopped(w) THEN w
    ELSE IF w.conn # None THEN err_disconnect(w, MsgDisconnected)
    ELSE w

\* An on_event that starts and stops whatever the state.
Link_on_event_ungated(w, event) ==
    IF event \in start_events THEN ensure_future(w, "start", None)
    ELSE IF event \in stop_events THEN ensure_future(w, "stop", None)
    ELSE w

\* lines 85-103
Link_on_event(w, event) ==
    IF w.state = WAITING
    THEN IF event \in start_events THEN ensure_future(w, "start", None) ELSE w
    ELSE IF w.state = STREAMING
    THEN IF event \in stop_events THEN ensure_future(w, "stop", None) ELSE w
    ELSE w

\* asyncio.Queue.put_nowait: append, and wake the first task waiting in get().
put_nowait(w, q, item) ==
    LET w1 == [w EXCEPT !.queues[q] = Append(@, item)] IN
    IF w.getters[q] = <<>> THEN w1
    ELSE [w1 EXCEPT !.getters[q] = Tail(@), !.sched = Append(@, Head(w.getters[q]))]

\* conn.disconnect(): the transport closes; the session reports the loss of
\* the connection through on_disconnect in a later callback.
disconnect(w) ==
    ensure_future([w EXCEPT !.disconnects = @ + 1, !.transport = "closing",
                            !.srv = FALSE], "lost", None)

\* ----- shutdown(), lines 129-133: the finally block
shutdown_finally(w, id) ==
    LET w1 == set_state(w, STOPPED) IN
    IF w.tasks[id].msg # None THEN on_error(w1, w.tasks[id].msg) ELSE w1

\* shutdown() is over (raised: an exception leaves it).  init() awaits it
\* in its except clause and re-raises; otherwise the task ends.
shutdown_exit(w, id, raised) ==
    LET w1 == shutdown_finally(w, id) IN
    IF w.tasks[id].kind = "init"
    THEN EndTask([w1 EXCEPT !.init_result =
                          IF w.tasks[id].res.status = "cancelled" THEN CancelledError
                          ELSE IF w.tasks[id].res.status = "err" THEN LinkErrorQtm
                          ELSE LinkErrorConnect], id, "failed")
    ELSE EndTask(w1, id, IF raised THEN "failed" ELSE "done")

\* ----- shutdown(), lines 126-128, then the finally block
shutdown_tail(w, id) ==
    LET w1 == IF w.conn # None /\ has_transport(w) THEN disconnect(w) ELSE w IN
    shutdown_exit([w1 EXCEPT !.conn = None], id, FALSE)

\* stop_stream() returns to whoever runs it
stop_stream_return(w, id) ==
    IF w.tasks[id].kind = "stop" THEN EndTask(w, id, "done")
    ELSE shutdown_tail(w, id)

\* an exception leaves stop_stream()
stop_stream_raise(w, id) ==
    IF w.tasks[id].kind = "stop" THEN EndTask(w, id, "failed")
    ELSE shutdown_exit(w, id, TRUE)

\* ----- stop_stream(), lines 144-148
stop_stream_finish(w, id) ==
    LET w1 == reset_stream_context(w) IN
    stop_stream_return(
        IF w1.state = STREAMING
        THEN set_state([w1 EXCEPT !.stop_time = Now(w1)], WAITING)
        ELSE w1, id)

\* `await self.receiver_task` once the task is over
stop_stream_joined(w, id, t) ==
    IF t # 0 /\ w.tasks[t].pc = "done" THEN stop_stream_finish(w, id)
    ELSE stop_stream_raise(w, id)

\* ----- stop_stream(), lines 141-143
stop_stream_join(w, id) ==
    IF w.receiver_queue # 0
    THEN LET w1 == put_nowait(w, w.receiver_queue, Sentinel)
             t == w.receiver_task IN
         IF t # 0 /\ w1.tasks[t].pc \notin {"done", "failed"}
         THEN [w1 EXCEPT !.tasks[id].pc = "join", !.tasks[id].q = t,
                         !.joiners = Append(@, id)]
         ELSE stop_stream_joined(w1, id, t)
    ELSE stop_stream_finish(w, id)

\* ----- stop_stream(), lines 136-140
stop_stream(w, id) ==
    IF w.conn # None /\ has_transport(w)
    THEN SendCommand([w EXCEPT !.sink = 0], id, "stopcmd")
    ELSE stop_stream_join(w, id)

\* ----- shutdown(), lines 122-125
shutdown(w, id) ==
    IF w.state = STREAMING THEN stop_stream(w, id) ELSE shutdown_tail(w, id)

\* ----------------------------------------------------- stream_receiver()
\* The task is over: every task awaiting it is woken, in order.
receiver_exit(w, id, pc) ==
    LET Mine(j) == w.tasks[j].q = id
        Others(j) == w.tasks[j].q # id IN
    [EndTask(w, id, pc) EXCEPT !.sched = @ \o SelectSeq(w.joiners, Mine),
                               !.joiners = SelectSeq(@, Others)]

\* lines 206-209: log, report, re-raise
receiver_raise(w, id) == receiver_exit(err_disconnect(w, MsgInternal), id, "failed")

\* lines 202-203: count the sample, then push it to the outlet
receiver_push(w, sample_len) ==
    LET w1 == [w EXCEPT !.packet_count = @ + 1,
                        !.counted = @ \cup {[outlet |-> w.lsl_outlet,
                                             len |-> sample_len]}] IN
    IF w.lsl_outlet = 0 THEN w1
    ELSE [w1 EXCEPT !.pushed = @ \cup {[outlet |-> w.lsl_outlet, len |-> sample_len]}]

\* lines 195-200: log and report the inconsistency
receiver_reject(w, sample_len) ==
    err_disconnect([w EXCEPT !.rejected = @ \cup {[len |-> sample_len,
                                                   state |-> w.state]}],
                   MsgInconsistent)

\* line 203: push_sample raises when there is no outlet (AttributeError on
\* None) or when the sample has not the outlet's channel count (pylsl's
\* ValueError)
push_sample_ok(w, sample_len) ==
    w.lsl_outlet # 0 /\ sample_len = w.outlets[w.lsl_outlet]

\* line 194: the sample fits the metadata
sample_ok(w, sample_len) == sample_len = channel_count(w.config)

RECURSIVE receiver_loop(_, _), receiver_get(_, _, _)
\* lines 189-190: the head of the loop, on the Link's queue of the moment
receiver_loop(w, id) ==
    IF w.receiver_queue = 0 THEN receiver_raise(w, id)
    ELSE receiver_get(w, id, w.receiver_queue)

\* Queue.get() on queue q, and lines 191-203 for the item it returns
receiver_get(w, id, q) ==
    IF w.queues[q] = <<>>
    THEN [w EXCEPT !.tasks[id].pc = "get", !.tasks[id].q = q,
                   !.getters[q] = Append(@, id)]
    ELSE LET packet == Head(w.queues[q])
             w1 == [w EXCEPT !.queues[q] = Tail(@)] IN
         IF packet.none THEN receiver_exit(w1, id, "done")
         ELSE LET sample_len == qtm_packet_to_lsl_sample_len(packet) IN
              IF ~sample_ok(w1, sample_len)
              THEN receiver_loop(receiver_reject(w1, sample_len), id)
              ELSE IF ~push_sample_ok(w1, sample_len)
                   THEN receiver_raise(receiver_push(w1, sample_len), id)
                   ELSE receiver_loop(receiver_push(w1, sample_len), id)

\* -------------------------------------------------------- start_stream()
\* lines 181-184: any other exception
start_stream_raise(w, id) == EndTask(err_disconnect(w, MsgInternal), id, "failed")

\* lines 178-180: a command failed
start_stream_command_error(w, id) == EndTask(err_disconnect(w, MsgQtmError), id, "done")

\* lines 152-154
start_stream(w, id) ==
    IF w.conn = None THEN start_stream_raise(w, id)
    ELSE SendCommand(w, id, "params")

\* line 163: new_lsl_stream_info returned
new_lsl_stream_info_ok(cfg) == ~new_lsl_stream_info(cfg).raised

\* lines 114-116
open_lsl_stream_outlet(w) ==
    [w EXCEPT !.lsl_info = Len(w.outlets) + 1,
              !.outlets = Append(@, new_lsl_stream_info(w.config).channel_count),
              !.lsl_outlet = Len(w.outlets) + 1]

\* lines 162-169
start_stream_open(w, id, cfg) ==
    LET q == Len(w.queues) + 1
        t == Len(w.tasks) + 1
        w1 == ensure_future([w EXCEPT !.config = cfg, !.receiver_queue = q,
                                      !.queues = Append(@, <<>>),
                                      !.getters = Append(@, <<>>),
                                      !.receiver_task = t], "receiver", None)
        w2 == open_lsl_stream_outlet(w1) IN
    IF ~new_lsl_stream_info_ok(cfg) THEN start_stream_raise(w1, id)
    ELSE IF w2.conn = None THEN start_stream_raise(w2, id)
    ELSE SendCommand([w2 EXCEPT !.sink = w2.receiver_queue], id, "frames")

\* line 156: the configuration start_stream() refuses to stream
start_stream_rejects(cfg) == channel_count(cfg) = 0

\* lines 155-161, with the reply to get_parameters
start_stream_params(w, id) ==
    LET res == w.tasks[id].res IN
    IF res.status = "err" THEN start_stream_command_error(w, id)
    ELSE IF parse_qtm_parameters(res.doc).raised THEN start_stream_raise(w, id)
    ELSE LET cfg == parse_qtm_parameters(res.doc).config IN
         IF start_stream_rejects(cfg)
         THEN EndTask(err_disconnect(w, MsgNoData), id, "done")
         ELSE start_stream_open(w, id, cfg)

\* lines 170-175, with the reply to stream_frames
start_stream_frames(w, id) ==
    IF w.tasks[id].res.status = "err" THEN start_stream_command_error(w, id)
    ELSE EndTask(set_state([w EXCEPT !.packet_count = 0, !.start_time = Now(w)],
                           STREAMING), id, "done")

\* ---------------------------------------------------------------- init()
\* init() raises LinkError without awaiting link.shutdown() first.
init_raise_unclean(w, id) ==
    EndTask([w EXCEPT !.init_result = IF w.tasks[id].res.status = "err"
                                      THEN LinkErrorQtm ELSE LinkErrorConnect],
            id, "failed")

\* lines 245-247: shut the link down, then re-raise
init_raise(w, id) == shutdown(w, id)

\* lines 226-241, with the result of qtm.connect
init_connected(w, id) ==
    IF w.tasks[id].res.status # "ok" THEN init_raise(w, id)
    ELSE SendCommand(set_state([w EXCEPT !.conn = "conn"], WAITING), id, "getstate")

\* An init() that returns its Link whether get_state succeeded or not.
init_state_unchecked(w, id) ==
    EndTask([w EXCEPT !.init_result = "returned", !.link_handle = TRUE],
            id, "done")

\* lines 242-250; gui.App.do_async_start keeps the Link that is returned
init_state(w, id) ==
    IF w.tasks[id].res.status # "ok" THEN init_raise(w, id)
    ELSE EndTask([w EXCEPT !.init_result = "returned", !.link_handle = TRUE],
                 id, "done")

\* The session's connection_lost callback after conn.disconnect()
connection_lost(w, id) ==
    EndTask(on_disconnect([w EXCEPT !.transport = "lost"]), id, "done")

\* ------------------------------------------------- one step of a task
Run(w, id) ==
    LET t == w.tasks[id] IN
    CASE t.kind = "init" /\ t.res.status = "cancelled" -> init_raise(w, id)
      [] t.kind = "init" /\ t.res.status # "cancelled" /\ t.pc = "connect" ->
            init_connected(w, id)
      [] t.kind = "init" /\ t.res.status # "cancelled" /\ t.pc = "getstate" ->
            init_state(w, id)
      [] t.kind = "shutdown" /\ t.pc = "begin" -> shutdown(w, id)
      [] t.kind = "stop" /\ t.pc = "begin" -> stop_stream(w, id)
      [] t.pc = "stopcmd" -> stop_stream_join(w, id)
      [] t.pc = "join" -> stop_stream_joined(w, id, t.q)
      [] t.kind = "start" /\ t.pc = "begin" -> start_stream(w, id)
      [] t.kind = "start" /\ t.pc = "params" -> start_stream_params(w, id)
      [] t.kind = "start" /\ t.pc = "frames" -> start_stream_frames(w, id)
      [] t.kind = "receiver" /\ t.pc = "begin" -> receiver_loop(w, id)
      [] t.kind = "receiver" /\ t.pc = "get" -> receiver_get(w, id, t.q)
      [] t.kind = "lost" -> connection_lost(w, id)

\* One more thing done by the environment.
Op(w) == [w EXCEPT !.ops = @ + 1]

\* ------------------------------------------------------------- actions
LinkInit ==
    /\ state = INITIAL /\ conn = None /\ config = Config
    /\ receiver_queue = 0 /\ receiver_task = 0 /\ lsl_info = 0 /\ lsl_outlet = 0
    /\ packet_count = 0 /\ start_time = 0 /\ stop_time = 0
    /\ transport = "none" /\ sink = 0 /\ srv = FALSE /\ pending = <<>> /\ outbox = <<>>
    /\ queues = <<>> /\ getters = <<>> /\ outlets = <<>>
    /\ pushed = {} /\ counted = {} /\ rejected = {}
    /\ tasks = <<Task("init", "connect", None)>>
    /\ ready = <<>> /\ sched = <<>> /\ joiners = <<>>
    /\ notes = <<>> /\ errors = <<>> /\ disconnects = 0
    /\ link_handle = FALSE /\ init_result = "pending"
    /\ ops = 0

\* No function of config.py has been called on its own.
NotCalled(out) == [called |-> FALSE, out |-> out]
Called(out) == [called |-> TRUE, out |-> out]
NoPacket == Pkt(FALSE, 0, FALSE, 0)

Init ==
    /\ LinkInit
    /\ xml_string = Malformed /\ parse_result = NotCalled(ParseError)
    /\ stream_info = NotCalled(Info(FALSE, 0, <<>>))
    /\ frame_packet = NoPacket /\ lsl_sample = NotCalled(<<>>)

\* The event loop runs the next task of the batch up to its next await.
RunTask ==
    \/ /\ ready # <<>>
       /\ Commit(Run([W EXCEPT !.ready = Tail(@)], Head(ready)))
    \/ /\ ready = <<>> /\ sched # <<>>
       /\ Commit(Run(Flush([W EXCEPT !.ready = Tail(sched), !.sched = <<>>]),
                      Head(sched)))

\* qtm.connect() completes: a session, or None.
ConnectDone ==
    /\ ready = <<>> /\ tasks[1].pc = "connect" /\ tasks[1].res = NoRes
    /\ \E r \in {"ok", "none"} :
         /\ r = "none" => ops < MaxOps
         /\ Commit([Poll(W) EXCEPT !.tasks[1].res = Res(r, Malformed),
                             !.sched = Append(@, 1),
                             !.transport = IF r = "ok" THEN "up" ELSE @,
                             !.ops = IF r = "ok" THEN @ ELSE @ + 1])

\* The reply to the oldest command without one arrives.
Reply ==
    /\ ready = <<>> /\ Poll(W).pending # <<>>
    /\ LET id == Head(Poll(W).pending)
           pc == tasks[id].pc IN
       \E r \in {"ok", "err"}, doc \in ParameterDocs :
         /\ r = "ok" => transport = "up"
         /\ doc # Malformed => (pc = "params" /\ r = "ok")
         /\ LET wanted == awaits_reply(W, id)
                failure == wanted /\ transport = "up" /\
                             (r = "err" \/ (pc = "params" /\
                                          parse_qtm_parameters(doc) # Parsed(Streamable))) IN
            /\ failure => ops < MaxOps
            /\ ~wanted => (r = "err" /\ doc = Malformed)
            /\ Commit([Poll(W) EXCEPT !.tasks[id].res = IF wanted THEN Res(r, doc) ELSE @,
                             !.pending = Tail(@),
                             !.ops = IF failure THEN @ + 1 ELSE @,
                             !.sched = IF wanted THEN Append(@, id) ELSE @,
                             !.srv = IF pc = "frames" /\ r = "ok" THEN TRUE
                                     ELSE IF pc = "stopcmd" /\ r = "ok" THEN FALSE
                                     ELSE @])

\* The session delivers an event to Link.on_event (lines 85-103).
Delivered(event) == Commit(Link_on_event(Op(Poll(W)), event))

on_event ==
    /\ ready = <<>> /\ transport = "up" /\ ops < MaxOps
    /\ \E event \in QRTEvent : Delivered(event)

\* The session delivers a frame packet to the registered on_packet.
on_packet ==
    /\ ready = <<>> /\ transport = "up" /\ srv /\ sink # 0 /\ ops < MaxOps
    /\ \E p \in FramePackets : Commit(put_nowait(Op(Poll(W)), sink, p))

\* The transport is lost: the session calls Link.on_disconnect.
TransportLost ==
    /\ ready = <<>> /\ transport = "up" /\ ops < MaxOps
    /\ Commit(on_disconnect([Op(Poll(W)) EXCEPT !.transport = "lost", !.srv = FALSE]))

\* gui.App.start_or_stop, lines 113-115: the user cancels the start task
\* while it awaits link.init().
Cancel ==
    /\ ready = <<>> /\ init_result = "pending" /\ ops < MaxOps
    /\ tasks[1].res.status # "cancelled"
    /\ Commit(cancel(Op(Poll(W)), 1))

\* gui.App.do_stop: the user stops the link.
UserShutdown ==
    /\ ready = <<>> /\ link_handle /\ ops < MaxOps
    /\ Commit(ensure_future(Op(Poll(W)), "shutdown", None))

Next ==
    \/ RunTask
    \/ ConnectDone
    \/ Reply
    \/ on_event
    \/ on_packet
    \/ TransportLost
    \/ Cancel
    \/ UserShutdown

Spec == Init /\ [][Next]_vars

\* ------------------------------------------- the functions of config.py
\* The documents: any combination of sections, each with up to MaxItems
\* cameras, labels or bodies, and text that is not XML.
Generals ==
    {NoGeneral} \cup {General(TRUE, c, i, f) :
                         c \in 0..MaxItems, i \in BOOLEAN, f \in BOOLEAN}
The_3Ds == {No3D} \cup {The_3D(TRUE, l, o) : l \in 0..MaxItems, o \in BOOLEAN}
The_6Ds ==
    {No6D} \cup {The_6D(TRUE, b, n, e) :
                    b \in 0..MaxItems, n \in BOOLEAN, e \in {"none", "known", "unknown"}}
Documents ==
    {Malformed} \cup
    {Document(TRUE, g, t3, t6) :
        g \in {x \in Generals : x.cameras = 0 => x.ids}, t3 \in The_3Ds,
        t6 \in {x \in The_6Ds : x.bodies = 0 => x.named}}

\* The packets: each component carried or not, with up to MaxItems markers
\* and bodies.
Packets ==
    {Pkt(c3, m, c6, b) :
        c3 \in BOOLEAN, m \in 0..MaxItems, c6 \in BOOLEAN, b \in 0..MaxItems}

ConfigInit ==
    /\ LinkInit
    /\ xml_string \in Documents /\ parse_result = NotCalled(ParseError)
    /\ stream_info = NotCalled(Info(FALSE, 0, <<>>))
    /\ frame_packet = NoPacket /\ lsl_sample = NotCalled(<<>>)

\* config = parse_qtm_parameters(xml_string)
Parse ==
    /\ ~parse_result.called
    /\ parse_result' = Called(parse_qtm_parameters(xml_string))
    /\ UNCHANGED <<xml_string, stream_info, frame_packet, lsl_sample>>
    /\ UNCHANGED linkvars

\* info = new_lsl_stream_info(config, host, port)
Build ==
    /\ parse_result.called /\ ~parse_result.out.raised /\ ~stream_info.called
    /\ stream_info' = Called(new_lsl_stream_info(parse_result.out.config))
    /\ UNCHANGED <<xml_string, parse_result, frame_packet, lsl_sample>>
    /\ UNCHANGED linkvars

\* sample = qtm_packet_to_lsl_sample(packet)
Convert ==
    /\ ~lsl_sample.called
    /\ \E p \in Packets :
         /\ frame_packet' = p
         /\ lsl_sample' = Called(qtm_packet_to_lsl_sample(p))
    /\ UNCHANGED <<xml_string, parse_result, stream_info>>
    /\ UNCHANGED linkvars

ConfigNext ==
    \/ Parse
    \/ Build
    \/ Convert

ConfigSpec == ConfigInit /\ [][ConfigNext]_vars

\* The event loop runs every scheduled task, and every session command
\* eventually returns or fails.
FairSpec == Spec /\ WF_vars(RunTask) /\ WF_vars(Reply)

\* ------------------------------------------------------------ vocabulary
Range(s) == {s[i] : i \in DOMAIN s}
Count(s, x) == Cardinality({i \in DOMAIN s : s[i] = x})
Live(i) == tasks[i].pc \notin {"done", "failed"}
\* Nothing is scheduled and no command awaits its reply.
Quiescent == ready = <<>> /\ sched = <<>> /\ pending = <<>> /\ outbox = <<>>

ShutdownTasks == {i \in DOMAIN tasks : tasks[i].kind = "shutdown"}
Receivers == {i \in DOMAIN tasks : tasks[i].kind = "receiver"}
\* The task that has the step: it leaves the suspension point pc.
Steps(i, pc) == tasks[i].pc = pc /\ tasks'[i].pc # pc

\* ---------------------------------------------------------------- claims
\* C1: every sample the consumer counts and pushes has the length of the
\* channel count that the outlet it is pushed to was built with.
C1_PushedSampleFitsOutlet ==
    \A p \in pushed \cup counted : p.outlet # 0 => p.len = outlets[p.outlet]

\* C2: once the consumer has found, while STREAMING, a sample whose length
\* is not the configured channel count, the Link reaches STOPPED and the
\* error callback gets the stream-inconsistency message.  The run is over
\* in a Quiescent state (neither RunTask nor Reply is enabled there), so by
\* then both must have happened.
C2_MismatchStopsLink ==
    (Quiescent /\ \E r \in rejected : r.state = STREAMING)
        => (STOPPED \in Range(notes) /\ MsgInconsistent \in Range(errors))

\* C3: a run whose only fatal condition is the sample-length mismatch
\* reports the error at most once and STOPPED at most once, however many
\* packets arrive before the shutdown completes, and exactly once each by
\* the time the run is over.
C3_OneErrorOneStopped ==
    (/\ init_result = "returned"
     /\ \A i \in ShutdownTasks : tasks[i].msg = MsgInconsistent)
        => /\ Len(errors) <= 1
           /\ Count(notes, STOPPED) <= 1
           /\ (Quiescent /\ ShutdownTasks # {})
                  => (Len(errors) = 1 /\ Count(notes, STOPPED) = 1)

\* C4: two shutdown() calls of the caller on a Link that is WAITING or
\* STREAMING, the second made before the first has completed, give one
\* state-changed(STOPPED) notification and one disconnect() call.
C4_TwoShutdownsOneStop ==
    (/\ init_result = "returned"
     /\ Cardinality(ShutdownTasks) = 2
     /\ \A i \in ShutdownTasks : tasks[i].msg = None)
        => (Count(notes, STOPPED) <= 1 /\ disconnects <= 1)

\* C5: a shutdown() that begins on a Link whose state is STOPPED leaves the
\* state, the session handle and the stream context as they are, does not
\* call disconnect() and notifies no state change.
C5_ShutdownIdempotentOnceStopped ==
    [][(state = STOPPED /\ \E i \in ShutdownTasks : Steps(i, "begin"))
          => /\ state' = state /\ conn' = conn /\ config' = config
             /\ receiver_queue' = receiver_queue /\ receiver_task' = receiver_task
             /\ lsl_info' = lsl_info /\ lsl_outlet' = lsl_outlet
             /\ disconnects' = disconnects /\ notes' = notes]_vars

\* C6: STOPPED is terminal: no step takes the state from STOPPED to another
\* value.
C6_StoppedIsTerminal == [][state = STOPPED => state' = STOPPED]_vars

\* C7: when a shutdown() has completed, the Link is STOPPED and no
\* operation is in flight, the session is disconnected and its handle is
\* None, no outlet is held and no consumer task is still running.
C7_NoResourceSurvivesShutdown ==
    (/\ Quiescent /\ state = STOPPED
     /\ \E i \in ShutdownTasks : tasks[i].pc = "done"
     /\ \A i \in DOMAIN tasks \ Receivers : ~Live(i))
        => /\ conn = None /\ transport # "up"
           /\ lsl_outlet = 0
           /\ \A i \in Receivers : ~Live(i)

\* C8: packet_count grows only while the state is STREAMING, and it falls
\* only to 0, at the step that makes the state STREAMING, with no sample
\* of the current outlet pushed yet.
C8_PacketCountDiscipline ==
    [][/\ packet_count' > packet_count => state = STREAMING
       /\ packet_count' < packet_count
             => /\ packet_count' = 0 /\ state' = STREAMING
                /\ \A p \in pushed : p.outlet # lsl_outlet]_vars

\* C9: a start_stream() rejected for a parameter document without channels
\* has requested the shutdown with the no-data message; when the run is
\* over the Link is STOPPED and that message has been reported.
C9_ZeroChannelsEndsStopped ==
    (Quiescent /\ \E i \in ShutdownTasks : tasks[i].msg = MsgNoData)
        => (state = STOPPED /\ MsgNoData \in Range(errors))

\* C10, as the claim has it: when the state query of init() fails with a
\* command error the Link has never been WAITING.
C10_NeverWaiting == init_result = LinkErrorQtm => WAITING \notin Range(notes)

\* C10, amended: when the state query of init() fails with a command error,
\* LinkError is raised and no Link returned, the session is disconnected
\* and its handle None, and the Link, made WAITING (one notification) just
\* before the query was sent, is STOPPED and has never been STREAMING.
C10_QueryFailureStopsLink ==
    init_result = LinkErrorQtm
        => /\ ~link_handle
           /\ conn = None /\ transport # "up"
           /\ notes[1] = WAITING /\ Count(notes, WAITING) = 1
           /\ state = STOPPED /\ STREAMING \notin Range(notes)

\* The query failed on a live transport and init() disconnected the session.
C10_Witness == init_result = LinkErrorQtm /\ disconnects = 1

StopTasks == {i \in DOMAIN tasks : tasks[i].kind = "stop"}
\* Link.reset_stream_context() has been the last to write the stream context.
ContextAbsent ==
    /\ receiver_queue = 0 /\ receiver_task = 0
    /\ lsl_info = 0 /\ lsl_outlet = 0 /\ config = Config

\* C11: an unsolicited disconnect reported while the Link is WAITING or
\* STREAMING is routed through shutdown("Disconnected from QTM"); when the
\* run is over the Link has reached STOPPED and the error callback has got
\* that message.
C11_DisconnectStopsLink ==
    (Quiescent /\ \E i \in ShutdownTasks : tasks[i].msg = MsgDisconnected)
        => (STOPPED \in Range(notes) /\ MsgDisconnected \in Range(errors))

\* C12: a stop event taken while STREAMING, with no shutdown requested and
\* the transport up, runs stop_stream() to its end: when the run is over
\* the Link has returned to WAITING, the session is still open and was
\* never disconnected, and a WAITING Link holds no stream context.
C12_StopEventReturnsToWaiting ==
    (/\ Quiescent /\ ShutdownTasks = {} /\ transport = "up"
     /\ StopTasks # {})
        => /\ \A i \in StopTasks : tasks[i].pc = "done"
           /\ Count(notes, WAITING) >= 2
           /\ conn # None /\ disconnects = 0
           /\ state = WAITING => ContextAbsent

\* The Config that parse_qtm_parameters returned.
ParsedConfig == parse_result.out.config
ParseReturned == parse_result.called /\ ~parse_result.out.raised

\* C13: every Configuration that parse_qtm_parameters produces counts as
\* many markers, bodies and cameras as the document has Label names, Body
\* elements and Camera elements, and its channel_count() is three per
\* marker plus six per body.
C13_CountsMatchDocument ==
    ParseReturned =>
        /\ marker_count(ParsedConfig) = xml_string.the_3d.labels
        /\ body_count(ParsedConfig) = xml_string.the_6d.bodies
        /\ camera_count(ParsedConfig) = xml_string.general.cameras
        /\ channel_count(ParsedConfig) =
               3 * xml_string.the_3d.labels + 6 * xml_string.the_6d.bodies

\* A document with two markers, one body and two cameras has been parsed
\* into a Configuration of twelve channels.
C13_Witness ==
    /\ ParseReturned
    /\ xml_string.the_3d.labels = 2 /\ xml_string.the_6d.bodies = 1
    /\ xml_string.general.cameras = 2
    /\ channel_count(ParsedConfig) = 12

\* The markers and the bodies a packet's components hold.
markers_carried(p) == IF p.has3d THEN p.markers ELSE 0
bodies_carried(p) == IF p.has6d THEN p.bodies ELSE 0

\* C14: the sample of a packet has three values per marker of its 3D
\* component and six per body of its 6DOF component, none for a component
\* the packet does not carry; so for a packet carrying both, with as many
\* markers and bodies as the Configuration, it has channel_count() values.
C14_SampleLength ==
    lsl_sample.called =>
        /\ Len(lsl_sample.out) =
               3 * markers_carried(frame_packet) + 6 * bodies_carried(frame_packet)
        /\ \A i \in DOMAIN lsl_sample.out :
               /\ lsl_sample.out[i].of = "marker" => frame_packet.has3d
               /\ lsl_sample.out[i].of = "body" => frame_packet.has6d
        /\ (/\ ParseReturned /\ frame_packet.has3d /\ frame_packet.has6d
            /\ frame_packet.markers = marker_count(ParsedConfig)
            /\ frame_packet.bodies = body_count(ParsedConfig))
               => Len(lsl_sample.out) = channel_count(ParsedConfig)

\* A packet of two markers and one body that carries no 3D component has
\* been converted, next to a Configuration of two markers and one body.
C14_Witness ==
    /\ lsl_sample.called /\ ParseReturned
    /\ ~frame_packet.has3d /\ frame_packet.markers = 2
    /\ frame_packet.has6d /\ frame_packet.bodies = 1
    /\ channel_count(ParsedConfig) = 12 /\ Len(lsl_sample.out) = 6

\* new_lsl_stream_info returned the stream info.
InfoBuilt == stream_info.called /\ ~stream_info.out.raised

\* The packet converted carries both components, with as many markers and
\* bodies as the Configuration parsed.
PacketMatchesConfig ==
    /\ ParseReturned /\ lsl_sample.called
    /\ frame_packet.has3d /\ frame_packet.has6d
    /\ frame_packet.markers = marker_count(ParsedConfig)
    /\ frame_packet.bodies = body_count(ParsedConfig)

\* The channel type that names a field of a marker or of a body.
TypeOfField(field) ==
    CASE field = "x" -> "PositionX"
      [] field = "y" -> "PositionY"
      [] field = "z" -> "PositionZ"
      [] field = "a1" -> "OrientationFirst"
      [] field = "a2" -> "OrientationSecond"
      [] field = "a3" -> "OrientationThird"

\* Channel ch is the description of sample value v: the same marker or
\* body, the type of the field read, metres for a converted position and
\* degrees for an angle.
Describes(ch, v) ==
    /\ ch.of = v.of /\ ch.index = v.index
    /\ ch.type = TypeOfField(v.field)
    /\ ch.unit = (IF v.metres THEN "meters" ELSE "degrees")

\* C15: the channels of the metadata are in the order in which the sample
\* converter appends the values of a packet with the same marker and body
\* counts: channel i describes value i.
C15_ChannelOrderIsSampleOrder ==
    (InfoBuilt /\ PacketMatchesConfig) =>
        /\ Len(stream_info.out.channels) = Len(lsl_sample.out)
        /\ \A i \in DOMAIN lsl_sample.out :
               Describes(stream_info.out.channels[i], lsl_sample.out[i])

\* The metadata of a Configuration with one marker and two bodies has been
\* built and a packet with one marker and two bodies converted.
C15_Witness ==
    /\ InfoBuilt /\ PacketMatchesConfig
    /\ marker_count(ParsedConfig) = 1 /\ body_count(ParsedConfig) = 2
    /\ Len(lsl_sample.out) = 15

\* The channels of the metadata that describe marker or body i with a
\* type of the given kind.
ChannelsOf(of, i, types) ==
    {k \in DOMAIN stream_info.out.channels :
        /\ stream_info.out.channels[k].of = of
        /\ stream_info.out.channels[k].index = i
        /\ stream_info.out.channels[k].type \in types}
Positions == {"PositionX", "PositionY", "PositionZ"}
Orientations == {"OrientationFirst", "OrientationSecond", "OrientationThird"}

\* C16: the metadata declares channel_count() channels and holds that
\* many descriptors: three positions per marker, and three positions and
\* three orientations per body.
C16_MetadataChannelCount ==
    InfoBuilt =>
        /\ stream_info.out.channel_count = channel_count(ParsedConfig)
        /\ Len(stream_info.out.channels) = stream_info.out.channel_count
        /\ \A i \in 1..marker_count(ParsedConfig) :
               /\ Cardinality(ChannelsOf("marker", i, Positions)) = 3
               /\ ChannelsOf("marker", i, Orientations) = {}
        /\ \A i \in 1..body_count(ParsedConfig) :
               /\ Cardinality(ChannelsOf("body", i, Positions)) = 3
               /\ Cardinality(ChannelsOf("body", i, Orientations)) = 3

\* The metadata of a document with one body and no marker has been built:
\* six channels.
C16_Witness ==
    /\ InfoBuilt
    /\ xml_string.the_6d.bodies = 1 /\ xml_string.the_3d.labels = 0
    /\ stream_info.out.channel_count = 6
    /\ Len(stream_info.out.channels) = 6

\* What the parser keeps of each section.
GeneralFields(c) == <<c.cameras, c.ids>>
The3DFields(c) == <<c.markers>>
The6DFields(c) == <<c.bodies, c.named, c.euler_ok>>

\* The parse of the document returned, each missing section left its field
\* empty, and the document without any one of its sections parses to the
\* same fields for the other two.
MissingSectionsAreEmpty ==
    LET c == ParsedConfig
        g == parse_qtm_parameters([xml_string EXCEPT !.general = NoGeneral])
        t3 == parse_qtm_parameters([xml_string EXCEPT !.the_3d = No3D])
        t6 == parse_qtm_parameters([xml_string EXCEPT !.the_6d = No6D])
    IN  /\ ~parse_result.out.raised
        /\ ~xml_string.general.present => camera_count(c) = 0
        /\ ~xml_string.the_3d.present => marker_count(c) = 0
        /\ ~xml_string.the_6d.present => body_count(c) = 0
        /\ ~g.raised /\ ~t3.raised /\ ~t6.raised
        /\ The3DFields(g.config) = The3DFields(c)
        /\ The6DFields(g.config) = The6DFields(c)
        /\ GeneralFields(t3.config) = GeneralFields(c)
        /\ The6DFields(t3.config) = The6DFields(c)
        /\ GeneralFields(t6.config) = GeneralFields(c)
        /\ The3DFields(t6.config) = The3DFields(c)

\* Every section the parser enters has what the parser reads without a
\* test: General its Frequency, The_6D its Euler element.
SectionsComplete(doc) ==
    /\ general_found(doc) => doc.general.frequency
    /\ the_6d_found(doc) => doc.the_6d.euler # "none"

InitCancelled == init_result = "pending" /\ init_result' = CancelledError

\* C18: when a cancelled init() lets the cancellation through, the Link is
\* STOPPED and holds no session, and the connection that qtm.connect made
\* is no longer up.
C18_CancelledInitReleasesSession ==
    [][InitCancelled =>
          (state' = STOPPED /\ conn' = None /\ transport' # "up")]_vars

\* The state-changed callback has been called in this step, the last
\* time with the state the Link is left in.
NotifiedToNewState ==
    /\ Len(notes') > Len(notes)
    /\ SubSeq(notes', 1, Len(notes)) = notes
    /\ notes'[Len(notes')] = state'

\* C19: every step that changes Link.state calls the state-changed
\* callback with the new state, and every call of the callback is made
\* with the state the Link is in: the states notified are the values
\* Link.state takes, in order.
C19_StateChangesAreNotified ==
    [][/\ state' # state => NotifiedToNewState
       /\ notes' # notes => NotifiedToNewState]_vars

\* The Link has gone from INITIAL through WAITING and STREAMING back to
\* WAITING, and each of the three changes has been notified.
C19_Witness ==
    /\ state = WAITING
    /\ notes = <<WAITING, STREAMING, WAITING>>

\* C20: whenever the Link is not STREAMING its stream context is absent:
\* no queue, no consumer task, no stream info, no outlet, and the empty
\* Configuration.
C20_ContextOnlyWhileStreaming == state # STREAMING => ContextAbsent

\* The start_stream() and stop_stream() calls made for an event that have
\* begun and not yet finished.
InFlight ==
    {i \in DOMAIN tasks : /\ tasks[i].kind \in {"start", "stop"}
                          /\ tasks[i].pc \notin {"begin", "done", "failed"}}

\* C21: at no time are two start_stream() or stop_stream() executions in
\* flight.
C21_OneCycleInFlight == Cardinality(InFlight) <= 1

\* The events that on_event has nothing to do for in the state the Link
\* is in.
Ignorable(event) ==
    \/ state = STREAMING /\ event \in start_events
    \/ state # STREAMING /\ event \in stop_events
    \/ state \in {INITIAL, STOPPED}

\* C22: an event delivered to on_event that is a start event while
\* STREAMING, a stop event while not STREAMING, or any event while INITIAL
\* or STOPPED, schedules no task and leaves the state, the session, the
\* stream context and packet_count as they are.
C22_IgnoredEventIsNoOp ==
    [][\A event \in QRTEvent :
          (/\ ready = <<>> /\ transport = "up" /\ ops' = ops + 1
           /\ Ignorable(event) /\ Delivered(event)) =>
              /\ tasks' = tasks /\ sched' = sched
              /\ UNCHANGED <<state, conn, transport, notes, packet_count>>
              /\ UNCHANGED <<config, receiver_queue, receiver_task,
                             lsl_info, lsl_outlet>>]_vars

\* The Link is STREAMING after one start event, and a second event has
\* been delivered that left it with the tasks of that one start only.
C22_Witness ==
    /\ state = STREAMING /\ Quiescent /\ transport = "up"
    /\ ops = 2 /\ Len(tasks) = 3
    /\ packet_count = 0 /\ rejected = {} /\ queues[receiver_queue] = <<>>

\* A consumer task is created in this step.
ReceiverStarted ==
    \E i \in DOMAIN tasks' : i \notin DOMAIN tasks /\ tasks'[i].kind = "receiver"

\* The Link becomes STREAMING in this step.
BecomesStreaming == state # STREAMING /\ state' = STREAMING

\* C23: start_stream() has built the Outlet when it starts the consumer
\* task, and it sets STREAMING, with packet_count reset, only when the
\* reply to its stream_frames request has come and is a success.
C23_StartStreamOrder ==
    [][/\ ReceiverStarted => (lsl_info' # 0 /\ lsl_outlet' # 0)
       /\ BecomesStreaming =>
             /\ \E i \in DOMAIN tasks :
                   /\ tasks[i].kind = "start" /\ Steps(i, "frames")
                   /\ tasks[i].res.status = "ok"
             /\ packet_count' = 0 /\ lsl_outlet' # 0]_vars

StartTasks == {i \in DOMAIN tasks : tasks[i].kind = "start"}

\* The error messages of the shutdowns that start_stream() asked for when
\* a step of it failed: a command error, or any other exception.
StartFailures ==
    {tasks[i].msg : i \in {j \in ShutdownTasks : tasks[j].msg = MsgQtmError}}
        \cup {MsgInternal : i \in {j \in StartTasks : tasks[j].pc = "failed"}}

\* C24: once a step of a start_stream() has failed and everything that was
\* scheduled has run, the Link is STOPPED and the failure has been
\* reported through the error callback.
C24_FailedStartStopsLink ==
    (Quiescent /\ StartFailures # {})
        => (state = STOPPED /\ StartFailures \subseteq Range(errors))

\* The stream context is released in this step.
OutletReleased == lsl_outlet # 0 /\ lsl_outlet' = 0

\* The Link goes back from STREAMING to WAITING in this step.
BackToWaiting == state = STREAMING /\ state' = WAITING

\* The sentinel is put on a queue in this step.
SentinelPushed ==
    \E q \in DOMAIN queues :
        Count(queues'[q], Sentinel) > Count(queues[q], Sentinel)

\* A stop_stream() resumes with the answer to its stop request, or begins
\* without a session to send the request to.
StopRequestOver ==
    \E i \in DOMAIN tasks :
        \/ Steps(i, "stopcmd")
        \/ /\ Steps(i, "begin") /\ tasks[i].kind \in {"stop", "shutdown"}
           /\ ~(conn # None /\ has_transport(W))

\* C25: stop_stream() puts the sentinel once its stop request has been
\* answered (with success or not), releases the stream context only when
\* no consumer task is left that could push to the Outlet, and sets WAITING
\* with the context released and stop_time recorded.
C25_StopStreamOrder ==
    [][/\ SentinelPushed => StopRequestOver
       /\ OutletReleased => \A i \in Receivers : ~Live(i)'
       /\ BackToWaiting => (ContextAbsent' /\ stop_time' = Now(W))]_vars

\* The shutdown() of task i, invoked while STREAMING, ends in this step.
StreamingShutdownEnds(i) ==
    /\ tasks[i].kind = "shutdown" /\ Live(i) /\ ~Live(i)'
    /\ tasks[i].pc \in {"stopcmd", "join"} \/ state = STREAMING

C27_ShutdownSkipsWaiting ==
    [][\A i \in ShutdownTasks :
          Steps(i, tasks[i].pc) => Count(notes', WAITING) = Count(notes, WAITING)]_vars

\* The items a step takes from the head of queue q, in order.
Taken(q) == SubSeq(queues[q], 1, Len(queues[q]) - Len(queues'[q]))

\* Packet p has been converted and, its sample fitting the metadata,
\* pushed to the outlet; or found inconsistent and reported.
Processed(p) ==
    LET n == qtm_packet_to_lsl_sample_len(p) IN
    IF n = channel_count(config)
    THEN [outlet |-> lsl_outlet, len |-> n] \in pushed'
    ELSE [len |-> n, state |-> state] \in rejected'

\* A consumer task returns in this step.
ConsumerExits ==
    \E i \in Receivers : tasks[i].pc # "done" /\ tasks'[i].pc = "done"

\* A step puts one item at the tail of a queue, or a consumer takes from
\* its head every item up to the first sentinel, or all of them; each
\* packet taken is processed, and a consumer exits exactly when it has
\* taken a sentinel.
FifoStep ==
    /\ \A q \in DOMAIN queues :
          LET old == queues[q]
              new == queues'[q]
              n == Len(old) - Len(new) IN
          new # old =>
              \/ /\ n = -1 /\ SubSeq(new, 1, Len(old)) = old
              \/ /\ n > 0 /\ new = SubSeq(old, n + 1, Len(old))
                 /\ \A k \in 1..(n - 1) : Taken(q)[k] # Sentinel
                 /\ \A k \in 1..n :
                       Taken(q)[k] # Sentinel => Processed(Taken(q)[k])
                 /\ Taken(q)[n] = Sentinel => ConsumerExits
                 /\ Taken(q)[n] # Sentinel => new = <<>>
    /\ ConsumerExits =>
          \E q \in DOMAIN queues :
              /\ Len(queues'[q]) < Len(queues[q])
              /\ Taken(q)[Len(Taken(q))] = Sentinel

\* C28: a queue gets its items at its tail and loses them from its head;
\* a consumer step takes every item up to the first sentinel, or all of
\* them, each packet taken is processed, and the consumer exits exactly
\* when it has taken a sentinel, leaving what was put after it.
C28_ConsumerIsFifo == [][FifoStep]_vars

\* The Link becomes STOPPED in this step.
BecomesStopped == state # STOPPED /\ state' = STOPPED

\* C29: when the Link becomes STOPPED every consumer task that a
\* start_stream() started has returned: none is left waiting on its queue.
C29_NoConsumerAbandoned ==
    [][BecomesStopped => \A r \in DOMAIN tasks' :
                             tasks'[r].kind = "receiver" => tasks'[r].pc = "done"]_vars

\* The most packets that can arrive on a queue: every event of the budget
\* but the start event that made the queue.
MaxArrivals == MaxOps - 1

\* C30: the queue has a capacity that the packets waiting in it never
\* exceed, however many arrive before the consumer runs: it never holds
\* every packet that can arrive.
C30_QueueIsBounded == \A q \in DOMAIN queues : Len(queues[q]) < MaxArrivals

\* ------------------------------------------------ the earlier src/qlsl.py
\* src/qlsl.py lines 78-89: the earlier parser keeps one marker per
\* Label/Name and one body per Body element of the sections it finds; its
\* General section needs no Frequency, its 6DOF section iterates over the
\* Euler element and raises when there is none.
xml_parse_parameters(doc) ==
    IF ~doc.wellformed THEN ParseError
    ELSE IF the_6d_found(doc) /\ doc.the_6d.euler = "none" THEN ParseError
    ELSE Parsed(Cfg(IF the_3d_found(doc) THEN doc.the_3d.labels ELSE 0,
                    IF the_6d_found(doc) THEN doc.the_6d.bodies ELSE 0,
                    TRUE,
                    IF general_found(doc) THEN doc.general.cameras ELSE 0))

\* src/qlsl.py line 316: the parameters the earlier start_stream() refuses
qlsl_start_stream_rejects(params) ==
    marker_count(params) = 0 \/ body_count(params) = 0

\* The earlier parser's outcome for the document at hand.
EarlierParams == xml_parse_parameters(xml_string).config
EarlierParseReturned ==
    parse_result.called /\ ~xml_parse_parameters(xml_string).raised

\* C31: both Link implementations refuse a parsed configuration exactly
\* when it has no channel: start_stream() of src/qlsl/link.py and
\* start_stream() of src/qlsl.py accept a configuration with markers and no
\* bodies, and one with bodies and no markers.
C31_RejectsExactlyZeroChannels ==
    /\ ParseReturned =>
           (start_stream_rejects(ParsedConfig) <=>
                channel_count(ParsedConfig) = 0)
    /\ EarlierParseReturned =>
           (qlsl_start_stream_rejects(EarlierParams) <=>
                3 * marker_count(EarlierParams)
                    + 6 * body_count(EarlierParams) = 0)

\* The consumer has found a sample whose length is not the channel count.
MismatchDetected == rejected # {}

\* Only one start_stream() has run, so the Link has had only one stream.
OneStream == Cardinality(StartTasks') <= 1

\* C32: once the consumer has detected a sample-length mismatch for a
\* stream, no later sample is pushed to that stream's outlet and
\* packet_count is not incremented again for that stream, even if
\* well-formed packets are queued or arrive before the shutdown runs.
C32_NoPushAfterMismatch ==
    [][(MismatchDetected /\ OneStream) =>
           (packet_count' <= packet_count /\ pushed' = pushed)]_vars

\* The shutdown() calls the user made: gui.App.do_stop gives no reason.
UserShutdowns ==
    {i \in DOMAIN tasks : tasks[i].kind = "shutdown" /\ tasks[i].msg = None}

\* Everything that has come from outside the Link was a session event that
\* started or stopped a stream, or the user's shutdown: no packet, no
\* failed connect or command on an open transport, no loss of the
\* transport and no cancellation.
NothingButEventsAndUser ==
    ops = Cardinality(StartTasks) + Cardinality(StopTasks)
              + Cardinality(UserShutdowns)

\* C33: a shutdown() that the user calls without a reason while the Link is
\* WAITING or STREAMING never leads to a call of the error callback: neither
\* the on_disconnect that follows the Link's own disconnect() nor anything
\* else it causes schedules a shutdown with an error message.
C33_UserShutdownReportsNoError ==
    (UserShutdowns # {} /\ NothingButEventsAndUser /\
     Cardinality(StartTasks) <= 1) =>
        /\ errors = <<>>
        /\ \A i \in DOMAIN tasks : tasks[i].kind = "shutdown" =>
                                       tasks[i].msg = None

\* init() returns its Link to the caller in this step.
InitReturns == init_result = "pending" /\ init_result' = "returned"

\* C34: whenever init() returns a Link normally, the Link has a connected
\* session and is neither INITIAL nor STOPPED: no event or disconnect
\* delivered while init() is suspended in get_state makes it hand back a
\* Link that is already stopped.
C34_InitReturnsLiveLink ==
    [][InitReturns => (conn' # None /\ state' \notin {INITIAL, STOPPED})]_vars

\* init() has just returned a WAITING Link with its session, and the next
\* task of the same batch is the start_stream() or the shutdown() that an
\* event or a disconnect scheduled while init() was still suspended.
C34_Witness ==
    /\ init_result = "returned" /\ state = WAITING /\ conn # None
    /\ Len(tasks) = 2 /\ ready = <<2>>
    /\ tasks[2].pc = "begin" /\ tasks[2].kind \in {"start", "shutdown"}

\* The shutdown() calls that have begun and not returned.
ShutdownsUnfinished == {i \in ShutdownTasks : Live(i)}

\* C35: every shutdown() completes, with the state STOPPED: once the event
\* loop has run every scheduled task and every session command has
\* returned or failed, no shutdown() is left suspended in stop_stream()
\* on the consumer task, whatever events, packets and start/stop
\* operations came before it.
C35_ShutdownCompletes ==
    /\ [](Quiescent => ShutdownsUnfinished = {})
    /\ [][\A i \in ShutdownTasks : (Live(i) /\ ~Live(i)') => state' = STOPPED]_vars
====
